---- MODULE Spec2Model ----
(* Model of reg_tests/lib/errorPlotting.py: the raster/fragment plot call   *)
(* plotOpenfastError, the four HTML export operations, and the behaviour of *)
(* the collapse controls the combined report emits.                         *)
(* A written file is a sequence of markup tokens [t, s, v]: t is the tag    *)
(* text, s the strings substituted into it, v the numbers substituted.      *)
EXTENDS Integers, Sequences, FiniteSets, TLC

\* ---------------------------------------------------------------- bounds
MaxRec == 3      \* records per exportCaseSummary / exportResultsSummary table
MaxList == 2     \* entries per list given to initializePlotDirectory
MaxChan == 6     \* records per combined report
MaxCols == 3     \* channels per solution file

ncols == 5

\* Norm values: two that print alike under '{0:0.4e}' and one that does not.
Vals == {100001, 100004, 100007}
SomeNorm == CHOOSE x \in Vals : TRUE
Names == <<"A", "B", "C", "D", "E", "F", "G", "H", "I", "J">>
NameAt(i) == IF i <= Len(Names) THEN Names[i] ELSE "Z"

\* Labels are strings, kept as sequences of characters.
FAIL == <<"F", "A", "I", "L">>
Labels == {FAIL, <<"F", "A", "I", "L", "E", "D">>, <<"f", "a", "i", "l">>,
           <<"P", "A", "S", "S">>}

\* ---------------------------------------------------------------- markup
Tok(t, s, v) == [t |-> t, s |-> s, v |-> v]
T(t) == Tok(t, <<>>, <<>>)

RECURSIVE Flatten(_)
Flatten(ss) == IF ss = <<>> THEN <<>> ELSE Head(ss) \o Flatten(Tail(ss))

\* '{0:0.4e}'.format(x): five significant digits, round half to even.
RECURSIVE Digits(_)
Digits(x) == IF x < 10 THEN 1 ELSE 1 + Digits(x \div 10)

RECURSIVE Pow10(_)
Pow10(n) == IF n = 0 THEN 1 ELSE 10 * Pow10(n - 1)

Fmt(x) ==
  IF x = 0 THEN <<0, 0>>
  ELSE LET e == Digits(x) - 1
       IN IF e <= 4 THEN <<x * Pow10(4 - e), e>>
          ELSE LET sc == Pow10(e - 4)
                   q  == x \div sc
                   r  == x % sc
                   up == (2 * r > sc) \/ (2 * r = sc /\ q % 2 = 1)
                   m  == IF up THEN q + 1 ELSE q
               IN IF m = 100000 THEN <<10000, e + 1>> ELSE <<m, e>>

\* max(list) for a non-empty list: keeps the first of equal items.
RECURSIVE MaxFrom(_, _)
MaxFrom(m, rest) ==
  IF rest = <<>> THEN m
  ELSE MaxFrom(IF Head(rest) > m THEN Head(rest) ELSE m, Tail(rest))

PyMax(list) == MaxFrom(list[1], Tail(list))

htmlHead(title) ==
  << T("<!DOCTYPE html>"), T("<html>"),
     Tok("<head>", <<"5MW_ITIBarge_DLL_WTurb_WavesIrr Summary">>, <<>>),
     T("</head>") >>

htmlTail == << T("</html>") >>

tableHead(columns) ==
  << T("<table>"), T("<thead>"), T("<tr>"), Tok("<th>", <<"#">>, <<>>) >>
  \o [c \in 1..Len(columns) |-> Tok("<th>", <<columns[c]>>, <<>>)]
  \o << T("</tr>"), T("</thead>") >>

\* The class attribute of a numeric cell: d == maxNorm ? highlight : none.
NormCellFmtCompare(d, m) == IF Fmt(d) = Fmt(m) THEN "cell-highlight" ELSE ""

NormCell(d, m) == IF d = m THEN "cell-highlight" ELSE ""

\* The class attribute of a label cell: d[1] == "FAIL".
IsPrefix(p, l) == Len(p) <= Len(l) /\ SubSeq(l, 1, Len(p)) = p

LabelCellPrefix(label) == IF IsPrefix(FAIL, label) THEN "cell-warning" ELSE ""

LabelCell(label) == IF label = FAIL THEN "cell-warning" ELSE ""

\* The header cell of body row i (i counted from 0 by enumerate).
RowHeaderZeroBased(i) == Tok("<th scope=row>", <<>>, <<i>>)

RowHeader(i) == Tok("<th scope=row>", <<>>, <<i + 1>>)

\* One body row of a norm table; d = <<name cell strings, rel, max>>.
NormRow(i, d, maxRelNorm, maxMaxNorm) ==
  << T("<tr>"), RowHeader(i), Tok("<td>", d[1], <<>>),
     Tok("<td>", <<NormCell(d[2], maxRelNorm)>>, Fmt(d[2])),
     Tok("<td>", <<NormCell(d[3], maxMaxNorm)>>, Fmt(d[3])),
     T("</tr>") >>

NormTable(data, maxRelNorm, maxMaxNorm) ==
  tableHead(<<"Channel", "Relative Max Norm", "Infinity Norm">>)
  \o << T("<tbody>") >>
  \o Flatten([k \in 1..Len(data) |-> NormRow(k - 1, data[k], maxRelNorm, maxMaxNorm)])
  \o << T("</tbody>"), T("</table>") >>

\* One body row of the case table; d = <<name cell strings, label>>.
CaseRow(i, d) ==
  << T("<tr>"), RowHeader(i), Tok("<td>", d[1], <<>>),
     Tok("<td>", <<LabelCell(d[2])>> \o d[2], <<>>),
     T("</tr>") >>

CaseTable(data) ==
  tableHead(<<"Test Case", "Pass/Fail">>)
  \o << T("<tbody>") >>
  \o Flatten([k \in 1..Len(data) |-> CaseRow(k - 1, data[k])])
  \o << T("</tbody>"), T("</table>") >>

\* A writer's outcome: the chunks that reached the file and how it ended.
Out(chunks, how) == [doc |-> Flatten(chunks), end |-> how]

\* exportCaseSummary(path, case, results), after open() succeeded.
CaseSummaryDoc(case, results) ==
  LET pre == << htmlHead(<<case, " Summary">>),
                << T("<body>") >>,
                << Tok("<h2>", <<case, " Summary">>, <<>>) >>,
                << Tok("<h4>", <<"Go To Plots">>, <<>>) >>,
                << Tok("<h4>", <<"Maximum values for each norm are highlighted">>, <<>>) >>,
                << T("<div class=container>") >> >>
      data == [k \in 1..Len(results) |-> << <<results[k][1]>>, results[k][2], results[k][3] >>]
      rels == [k \in 1..Len(results) |-> results[k][2]]
      maxs == [k \in 1..Len(results) |-> results[k][3]]
  IN IF results = <<>> THEN Out(pre, "raised")
     ELSE Out(pre \o << NormTable(data, PyMax(rels), PyMax(maxs)),
                        << T("<br>") >>, << T("</div>") >>, << T("</body>") >>,
                        htmlTail >>, "done")

\* exportResultsSummary(path, results), after open() succeeded.
ResultsSummaryDoc(results) ==
  LET data == [k \in 1..Len(results) |->
                 << <<"<a href>", results[k][1]>>, results[k][2] >>]
  IN Out(<< htmlHead(<<"Regression Test Summary">>),
            << T("<body>") >>,
            << Tok("<h2>", <<"Regression Test Summary">>, <<>>) >>,
            << T("<div class=container>") >>,
            CaseTable(data),
            << T("<br>") >>, << T("</div>") >>, << T("</body>") >>,
            htmlTail >>, "done")

\* initializePlotDirectory(testSolution, plotList, relativeNorm, maxNorm),
\* after the directory check and open() succeeded.
PlotDirectoryDoc(case, plotList, relativeNorm, maxNorm) ==
  LET pre == << htmlHead(<<case>>),
                << T("<body>") >>,
                << Tok("<h2>", <<case>>, <<>>) >>,
                << T("<div class=container>") >>,
                << Tok("<h4>", <<"Maximum values for each norm are highlighted">>, <<>>) >> >>
      data == [k \in 1..Len(plotList) |->
                 << <<"<a href=#>", plotList[k]>>, relativeNorm[k], maxNorm[k] >>]
      imgs == Flatten([k \in 1..Len(plotList) |->
                 << Tok("<div id>", <<plotList[k]>>, <<>>),
                    Tok("<img>", <<plotList[k], ".png">>, <<>>),
                    T("</div>") >>])
  IN IF \/ Len(relativeNorm) < Len(plotList)
        \/ Len(maxNorm) < Len(plotList)
        \/ relativeNorm = <<>>
        \/ maxNorm = <<>>
     THEN Out(pre, "raised")
     ELSE Out(pre \o << NormTable(data, PyMax(relativeNorm), PyMax(maxNorm)),
                        << T("<br>") >>, << T("<div class=row>") >>,
                        imgs,
                        << T("</div>") >>, << T("</div>") >>, << T("</body>") >>,
                        htmlTail >>, "done")

\* str.replace('px', '%') on a fragment kept as a sequence of text pieces.
Replace(txt) == [k \in 1..Len(txt) |-> IF txt[k] = "px" THEN "%" ELSE txt[k]]

\* The per-channel button of data_p, for entry plot of plotList.
Button(plot) == Tok("<button data-toggle=collapse data-target=#>", <<plot>>, <<>>)

\* Lines 342-354: the button grid, one cell per record of data_s.
GridCells(n, plotList) ==
  Flatten([k \in 1..n |->
    LET i == k - 1
        current_col == i % ncols
    IN (IF current_col = 0 THEN << T("<div class=row>") >> ELSE <<>>)
       \o << T("<div class=col-sm>"), Button(plotList[k]), T("</div>") >>
       \o (IF current_col = ncols - 1 THEN << T("</div>") >> ELSE <<>>)])

\* Lines 356-358: for i in range(current_col, ncols-1), after n >= 1 records.
GridPadding(n) ==
  LET current_col == (n - 1) % ncols
  IN Flatten([j \in 1..(ncols - 1 - current_col) |->
       << T("<div class=col-sm>"), T("</div>") >>])

\* The identifier of the i-th chart container (i counted from 0): d[0].
ContainerIdNext(i, data_s, plotList) ==
  IF i + 2 <= Len(data_s) THEN data_s[i + 2][1] ELSE data_s[i + 1][1]

ContainerId(i, data_s, plotList) == data_s[i + 1][1]

\* Lines 366-377: the chart containers, one per record of data_s.
Containers(data_s, plotList, div_string_mat) ==
  Flatten([k \in 1..Len(data_s) |->
    << T("<div class=col-sm style>"),
       Tok("<div id class=collapse multi-collapse>",
           <<ContainerId(k - 1, data_s, plotList)>>, <<>>),
       Tok("fragment", Replace(div_string_mat[k].txt), <<div_string_mat[k].id>>),
       T("</div>") >>])

\* exportCombinedSummary(path, case, results, testSolution, plotList,
\* relativeNorm, maxNorm, div_string_mat), after open() succeeded.
CombinedSummaryDoc(case, results, plotList, relativeNorm, maxNorm, div_string_mat) ==
  LET pre == << htmlHead(<<case, " Summary">>),
                << T("<body>") >>,
                << Tok("<h2>", <<case, " Summary">>, <<>>) >> >>
      n == Len(results)
      body == << T("<div class=container>"),
                 Tok("<button data-toggle=collapse data-target=>", <<".multi-collapse">>, <<>>),
                 T("<br><br>"),
                 T("<div>") >>
              \o GridCells(n, plotList)
              \o GridPadding(n)
              \o << T("</div>"), T("<br>") >>
              \o Containers(results, plotList, div_string_mat)
              \o << T("</div>") >>
  IN IF \/ Len(relativeNorm) < Len(plotList)      \* data_p: relativeNorm[i]
        \/ Len(maxNorm) < Len(plotList)           \* data_p: maxNorm[i]
        \/ Len(plotList) < n                      \* data_p[i][0]
        \/ n = 0                                  \* current_col unbound
        \/ Len(div_string_mat) < n                \* div_string_mat[i]
     THEN Out(pre, "raised")
     ELSE Out(pre \o << body, << T("</body>") >>, htmlTail >>, "done")

\* ---------------------------------------------------------------- inputs
\* Norm records and case results: n named records over the value sets.
Records(n) == [1..n -> Vals \X Vals]
NormResult(n, f) == [k \in 1..n |-> <<NameAt(k), f[k][1], f[k][2]>>]
CaseResult(n, f) == [k \in 1..n |-> <<NameAt(k), f[k]>>]
ChannelList(n) == [k \in 1..n |-> NameAt(k)]

\* The records of a combined report: n distinct channels, norms not shown.
CombinedResults == {[k \in 1..n |-> <<NameAt(k), SomeNorm, SomeNorm>>] : n \in 0..MaxChan}

\* The selected channels: the records' names filtered by membership.
RECURSIVE Filter(_, _)
Filter(names, keep) ==
  IF names = <<>> THEN <<>>
  ELSE (IF Head(names) \in keep THEN <<Head(names)>> ELSE <<>>) \o Filter(Tail(names), keep)

ResultNames(rs) == [k \in 1..Len(rs) |-> rs[k][1]]
Range(f) == {f[k] : k \in DOMAIN f}
Selections(rs) == {Filter(ResultNames(rs), keep) : keep \in SUBSET Range(ResultNames(rs))}
Fragments(n) == [k \in 1..n |-> [id |-> k, txt |-> <<"width:1000", "px">>]]
ConstNorms(n) == [k \in 1..n |-> SomeNorm]

\* ---------------------------------------------------------------- plot call
ChannelNames == {"Time", "A", "B"}
AttributeLists == UNION {[1..k -> ChannelNames] : k \in 1..MaxCols}

\* list.index(x) counted from 0, for x in the list: the first occurrence.
IndexOfFromOne(list, x) ==
  CHOOSE k \in 1..Len(list) : list[k] = x /\ \A j \in 1..(k - 1) : list[j] # x

IndexOf(list, x) ==
  (CHOOSE k \in 1..Len(list) : list[k] = x /\ \A j \in 1..(k - 1) : list[j] # x) - 1

\* dict[:, c] of the solution called sol: the column is named by its place.
Column(sol, c) == <<sol, c>>

\* ---------------------------------------------------------------- report page
IsContainer(tok) == tok.t = "<div id class=collapse multi-collapse>"
IsButton(tok) == tok.t = "<button data-toggle=collapse data-target=#>"
IsToggleAll(tok) == tok.t = "<button data-toggle=collapse data-target=>"

ContainerIds(doc) == LET cs == SelectSeq(doc, IsContainer) IN [k \in 1..Len(cs) |-> cs[k].s[1]]
ButtonTargets(doc) == LET bs == SelectSeq(doc, IsButton) IN [k \in 1..Len(bs) |-> bs[k].s[1]]

\* Bootstrap's collapse click handler on data-target="#name": every element
\* the selector matches is toggled.
ToggleMatching(v, ids, target) == [k \in 1..Len(v) |-> IF ids[k] = target THEN ~v[k] ELSE v[k]]

\* The same handler on data-target=".multi-collapse": each container of the
\* class is toggled on its own state.
ToggleEach(v) == [k \in 1..Len(v) |-> ~v[k]]

\* ---------------------------------------------------------------- state
VARIABLES pc, op, html, results, plotList, relativeNorm, maxNorm, div_string_mat,
          attribute, attribute_names, columns2, use_plotly, channel,
          y1series, y2series, figure, rendered, plotsDir, png, vis

exportVars == <<html, results, plotList, relativeNorm, maxNorm, div_string_mat>>
callVars == <<attribute, attribute_names, columns2, use_plotly>>
plotVars == <<channel, y1series, y2series, figure, rendered, plotsDir, png>>
vars == <<pc, op, exportVars, callVars, plotVars, vis>>

NoFile == << T("no file") >>
Exports == {"exportCaseSummary", "exportResultsSummary",
            "initializePlotDirectory", "exportCombinedSummary"}

Init ==
  /\ pc = "idle"
  /\ op = "none"
  /\ html = NoFile
  /\ results = <<>>
  /\ plotList = <<>>
  /\ relativeNorm = <<>>
  /\ maxNorm = <<>>
  /\ div_string_mat = <<>>
  /\ attribute = "none"
  /\ attribute_names = <<>>
  /\ columns2 = 0
  /\ use_plotly = FALSE
  /\ channel = -1
  /\ y1series = <<>>
  /\ y2series = <<>>
  /\ figure = "none"
  /\ rendered = FALSE
  /\ plotsDir = "absent"
  /\ png = "absent"
  /\ vis = <<>>

\* open(..., "w") raising leaves the file as it was.
OpenFails ==
  /\ pc = "idle"
  /\ \E o \in Exports : op' = o
  /\ pc' = "raised"
  /\ UNCHANGED <<exportVars, callVars, plotVars, vis>>

Finish(o, out) ==
  /\ op' = o
  /\ html' = out.doc
  /\ pc' = out.end

exportCaseSummary ==
  /\ pc = "idle"
  /\ \E n \in 0..MaxRec : \E f \in Records(n) :
       /\ results' = NormResult(n, f)
       /\ Finish("exportCaseSummary", CaseSummaryDoc("case", NormResult(n, f)))
  /\ UNCHANGED <<plotList, relativeNorm, maxNorm, div_string_mat, callVars, plotVars, vis>>

exportResultsSummary ==
  /\ pc = "idle"
  /\ \E n \in 0..MaxRec : \E f \in [1..n -> Labels] :
       /\ results' = CaseResult(n, f)
       /\ Finish("exportResultsSummary", ResultsSummaryDoc(CaseResult(n, f)))
  /\ UNCHANGED <<plotList, relativeNorm, maxNorm, div_string_mat, callVars, plotVars, vis>>

initializePlotDirectory ==
  /\ pc = "idle"
  /\ \E n \in 0..MaxList, nr \in 0..MaxList, nm \in 0..MaxList :
     \E rn \in [1..nr -> Vals], mn \in [1..nm -> Vals] :
       LET pl == ChannelList(n) IN
       /\ plotList' = pl
       /\ relativeNorm' = rn
       /\ maxNorm' = mn
       /\ Finish("initializePlotDirectory", PlotDirectoryDoc("case", pl, rn, mn))
  /\ UNCHANGED <<results, div_string_mat, callVars, plotVars, vis>>

exportCombinedSummary ==
  /\ pc = "idle"
  /\ \E rs \in CombinedResults :
       \E pl \in Selections(rs), nf \in 0..Len(rs), short \in BOOLEAN :
         LET nn == IF short /\ Len(pl) > 0 THEN Len(pl) - 1 ELSE Len(pl)
         IN /\ results' = rs
            /\ plotList' = pl
            /\ relativeNorm' = ConstNorms(nn)
            /\ maxNorm' = ConstNorms(Len(pl))
            /\ div_string_mat' = Fragments(nf)
            /\ Finish("exportCombinedSummary",
                      CombinedSummaryDoc("case", rs, pl, ConstNorms(nn),
                                         ConstNorms(Len(pl)), Fragments(nf)))
  /\ UNCHANGED <<callVars, plotVars, vis>>

\* Lines 116-118: argument and file validation, then both solutions parsed;
\* each of them may end the process.
plotOpenfastError ==
  /\ pc = "idle"
  /\ op' = "plotOpenfastError"
  /\ \E a \in ChannelNames, an \in AttributeLists, c2 \in 1..MaxCols, up \in BOOLEAN :
       /\ attribute' = a
       /\ attribute_names' = an
       /\ columns2' = c2
       /\ use_plotly' = up
  /\ pc' \in {"resolve", "invalid"}
  /\ UNCHANGED <<exportVars, plotVars, vis>>

\* Lines 120-123: the lookup; on a miss exitWithError ends the process (and
\* line 125 would raise on the unbound channel if it returned).
ResolveChannel ==
  /\ pc = "resolve"
  /\ IF \E k \in 1..Len(attribute_names) : attribute_names[k] = attribute
     THEN /\ channel' = IndexOf(attribute_names, attribute)
          /\ pc' = "extract"
     ELSE /\ channel' = channel
          /\ pc' = "nochannel"
  /\ UNCHANGED <<op, exportVars, callVars, y1series, y2series, figure, rendered,
                 plotsDir, png, vis>>

\* Lines 125-131: both value columns are taken at the candidate's index.
ExtractSeries ==
  /\ pc = "extract"
  /\ IF channel < columns2
     THEN /\ y1series' = Column("test", channel)
          /\ y2series' = Column("baseline", channel)
          /\ pc' = "plot"
     ELSE /\ y1series' = Column("test", channel)
          /\ y2series' = y2series
          /\ pc' = "raised"
  /\ UNCHANGED <<op, exportVars, callVars, channel, figure, rendered, plotsDir, png, vis>>

\* _plotError: a div string in fragment mode, an open figure in raster mode.
plotError ==
  /\ pc = "plot"
  /\ rendered' = TRUE
  /\ IF use_plotly
     THEN /\ figure' = figure
          /\ pc' = "done"
     ELSE /\ figure' = "open"
          /\ pc' = "mkdir"
  /\ UNCHANGED <<op, exportVars, callVars, channel, y1series, y2series, plotsDir, png, vis>>

\* Line 144: rtl.validateDirOrMkdir creates the directory or ends the process.
validateDirOrMkdir ==
  /\ pc = "mkdir"
  /\ \/ /\ plotsDir' = "present"
        /\ pc' = "save"
     \/ /\ plotsDir' = plotsDir
        /\ pc' = "nodir"
  /\ UNCHANGED <<op, exportVars, callVars, channel, y1series, y2series, figure,
                 rendered, png, vis>>

\* Line 145: savefig writes the image or raises.
savePlot ==
  /\ pc = "save"
  /\ \/ /\ png' = "written"
        /\ pc' = "close"
     \/ /\ png' = png
        /\ pc' = "raised"
  /\ UNCHANGED <<op, exportVars, callVars, channel, y1series, y2series, figure,
                 rendered, plotsDir, vis>>

\* Line 147: plt.close().
closePlot ==
  /\ pc = "close"
  /\ figure' = "closed"
  /\ pc' = "done"
  /\ UNCHANGED <<op, exportVars, callVars, channel, y1series, y2series, rendered,
                 plotsDir, png, vis>>

\* The browser loads a finished combined report: class "collapse" hides
\* every chart container.
LoadReport ==
  /\ pc = "done"
  /\ op = "exportCombinedSummary"
  /\ vis' = [k \in 1..Len(ContainerIds(html)) |-> FALSE]
  /\ pc' = "viewing"
  /\ UNCHANGED <<op, exportVars, callVars, plotVars>>

\* A click on the b-th per-channel button.
ClickChannel ==
  /\ pc = "viewing"
  /\ \E b \in 1..Len(ButtonTargets(html)) :
       vis' = ToggleMatching(vis, ContainerIds(html), ButtonTargets(html)[b])
  /\ UNCHANGED <<pc, op, exportVars, callVars, plotVars>>

\* A click on "Expand/Collapse All Graphs".
ClickToggleAll ==
  /\ pc = "viewing"
  /\ \E k \in 1..Len(html) : IsToggleAll(html[k])
  /\ vis' = ToggleEach(vis)
  /\ UNCHANGED <<pc, op, exportVars, callVars, plotVars>>

Next ==
  \/ OpenFails
  \/ exportCaseSummary
  \/ exportResultsSummary
  \/ initializePlotDirectory
  \/ exportCombinedSummary
  \/ plotOpenfastError
  \/ ResolveChannel
  \/ ExtractSeries
  \/ plotError
  \/ validateDirOrMkdir
  \/ savePlot
  \/ closePlot
  \/ LoadReport
  \/ ClickChannel
  \/ ClickToggleAll

Spec == Init /\ [][Next]_vars

\* ---------------------------------------------------------------- tables read back
IndexOfTag(doc, tag) == CHOOSE k \in 1..Len(doc) : doc[k].t = tag /\ \A j \in 1..(k - 1) : doc[j].t # tag
HasTag(doc, tag) == \E k \in 1..Len(doc) : doc[k].t = tag
TableBody(doc) ==
  IF HasTag(doc, "<tbody>") /\ HasTag(doc, "</tbody>")
  THEN SubSeq(doc, IndexOfTag(doc, "<tbody>") + 1, IndexOfTag(doc, "</tbody>") - 1)
  ELSE <<>>
RowCount(body) == Len(SelectSeq(body, LAMBDA tok : tok.t = "<tr>"))
\* The c-th token of the k-th body row of a table whose rows hold w tokens.
Cell(body, w, k, c) == body[(k - 1) * w + c]
IsMaxOf(x, list) == \A j \in 1..Len(list) : list[j] <= x
Last(sq) == sq[Len(sq)]

NormTableDone ==
  /\ pc = "done"
  /\ op \in {"exportCaseSummary", "initializePlotDirectory"}
\* The norm columns the call was given, row by row.
RelColumn == IF op = "exportCaseSummary" THEN [k \in 1..Len(results) |-> results[k][2]] ELSE relativeNorm
MaxColumn == IF op = "exportCaseSummary" THEN [k \in 1..Len(results) |-> results[k][3]] ELSE maxNorm
RowNames == IF op = "initializePlotDirectory" THEN plotList ELSE [k \in 1..Len(results) |-> results[k][1]]
ParallelLists ==
  op = "initializePlotDirectory" => Len(relativeNorm) = Len(plotList) /\ Len(maxNorm) = Len(plotList)

\* C1: in a finished norm table built from a non-empty list (parallel lists
\* for initializePlotDirectory), the relative-norm cell of a row carries
\* cell-highlight exactly when no value of the relative-norm column exceeds
\* the row's value, and likewise the max-norm cell and the max-norm column;
\* so all rows tying for a maximum are highlighted and no other row is.
C1_HighlightIffColumnMax ==
  LET tb == TableBody(html)
  IN (NormTableDone /\ ParallelLists) =>
       \A k \in 1..Len(RowNames) :
         /\ (Cell(tb, 6, k, 4).s[1] = "cell-highlight") <=> IsMaxOf(RelColumn[k], RelColumn)
         /\ (Cell(tb, 6, k, 5).s[1] = "cell-highlight") <=> IsMaxOf(MaxColumn[k], MaxColumn)

\* A finished table with a tie for the relative-norm maximum next to a
\* smaller value that prints the same as a maximum of the other column.
C1_Witness ==
  LET tb == TableBody(html)
  IN /\ NormTableDone /\ ParallelLists
     /\ Len(RowNames) = 3
     /\ RelColumn[1] = RelColumn[3] /\ RelColumn[2] < RelColumn[1]
     /\ Cell(tb, 6, 1, 4).s[1] = "cell-highlight"
     /\ Cell(tb, 6, 3, 4).s[1] = "cell-highlight"
     /\ Cell(tb, 6, 2, 4).s[1] = ""
     /\ MaxColumn[1] < MaxColumn[2] /\ Fmt(MaxColumn[1]) = Fmt(MaxColumn[2])

IsExactlyFAIL(label) ==
  Len(label) = 4 /\ label[1] = "F" /\ label[2] = "A" /\ label[3] = "I" /\ label[4] = "L"

\* C2: in a finished case table, the label cell of a row carries
\* cell-warning exactly when the row's label is the four characters FAIL.
C2_WarningIffExactlyFAIL ==
  LET tb == TableBody(html)
  IN (pc = "done" /\ op = "exportResultsSummary") =>
       \A k \in 1..Len(results) :
         (Cell(tb, 5, k, 4).s[1] = "cell-warning") <=> IsExactlyFAIL(results[k][2])

\* A finished case table holding FAIL, a longer label starting with FAIL
\* and the lower-case spelling.
C2_Witness ==
  LET tb == TableBody(html)
  IN /\ pc = "done" /\ op = "exportResultsSummary"
     /\ Len(results) = 3
     /\ results[1][2] = FAIL /\ Cell(tb, 5, 1, 4).s[1] = "cell-warning"
     /\ Len(results[2][2]) = 6 /\ Cell(tb, 5, 2, 4).s[1] = ""
     /\ results[3][2][1] = "f" /\ Cell(tb, 5, 3, 4).s[1] = ""

\* C7: a finished norm table or case table holds exactly one body row per
\* input record, in input order: row k is numbered k and shows record k's
\* name and its values as formatted (the label, in the case table).
C7_RowsFollowInput ==
  LET tb == TableBody(html)
  IN /\ (NormTableDone =>
           /\ RowCount(tb) = Len(RowNames)
           /\ Len(tb) = 6 * Len(RowNames)
           /\ \A k \in 1..Len(RowNames) :
                /\ Cell(tb, 6, k, 1).t = "<tr>"
                /\ Cell(tb, 6, k, 2).v = <<k>>
                /\ Last(Cell(tb, 6, k, 3).s) = RowNames[k]
                /\ Cell(tb, 6, k, 4).v = Fmt(RelColumn[k])
                /\ Cell(tb, 6, k, 5).v = Fmt(MaxColumn[k]))
     /\ ((pc = "done" /\ op = "exportResultsSummary") =>
           /\ RowCount(tb) = Len(results)
           /\ Len(tb) = 5 * Len(results)
           /\ \A k \in 1..Len(results) :
                /\ Cell(tb, 5, k, 1).t = "<tr>"
                /\ Cell(tb, 5, k, 2).v = <<k>>
                /\ Last(Cell(tb, 5, k, 3).s) = results[k][1]
                /\ Tail(Cell(tb, 5, k, 4).s) = results[k][2])

\* A finished three-row norm table whose values are not in sorted order.
C7_Witness ==
  LET tb == TableBody(html)
  IN /\ NormTableDone
     /\ Len(RowNames) = 3
     /\ RelColumn[1] > RelColumn[2] /\ RelColumn[2] < RelColumn[3]
     /\ Cell(tb, 6, 3, 2).v = <<3>>
     /\ Cell(tb, 6, 2, 4).v = Fmt(RelColumn[2])

Present == \E k \in 1..Len(attribute_names) : attribute_names[k] = attribute

\* C3: in plotOpenfastError a channel name found in attribute_names
\* resolves to the index of its (first) entry, and both value columns are
\* taken at that index; a name not found ends the call with an error while
\* nothing is rendered, no figure exists, no plots directory was made and
\* no image was written.
C3_ChannelResolution ==
  op = "plotOpenfastError" =>
    /\ (Present /\ pc \notin {"resolve", "invalid"}) =>
         /\ channel + 1 \in 1..Len(attribute_names)
         /\ attribute_names[channel + 1] = attribute
         /\ \A j \in 1..channel : attribute_names[j] # attribute
    /\ (Present /\ pc \in {"plot", "mkdir", "save", "close", "done", "nodir"}) =>
         /\ y1series = Column("test", channel)
         /\ y2series = Column("baseline", channel)
    /\ ~Present =>
         /\ pc \in {"resolve", "invalid", "nochannel"}
         /\ channel = -1
         /\ ~rendered
         /\ figure = "none"
         /\ plotsDir = "absent"
         /\ png = "absent"

\* A raster call that resolved a name listed twice, past the time column,
\* and wrote the image of that column.
C3_Witness ==
  /\ op = "plotOpenfastError" /\ pc = "done"
  /\ attribute_names = <<"Time", attribute, attribute>>
  /\ channel = 1
  /\ y2series = Column("baseline", 1)
  /\ png = "written"

CombinedEnded ==
  /\ op = "exportCombinedSummary"
  /\ pc \in {"done", "raised"}
  /\ html # NoFile

\* C4: when the combined report ends with as many fragments as selected
\* channels, fragment i sits inside the container whose identifier is the
\* i-th entry of plotList.
C4_FragmentUnderSelectedChannel ==
  (CombinedEnded /\ Len(div_string_mat) = Len(plotList)
                 /\ Len(relativeNorm) = Len(plotList)) =>
    \A i \in 1..Len(plotList) :
      \E k \in 1..(Len(html) - 1) :
        /\ IsContainer(html[k]) /\ html[k].s[1] = plotList[i]
        /\ html[k + 1].t = "fragment" /\ html[k + 1].v = <<i>>

AnyVisible == \E k \in 1..Len(vis) : vis[k]

\* C6: a click on the toggle-all button hides every container when some
\* container is visible, and shows every container otherwise.
C6_ToggleAllHidesWhenAnyVisible ==
  [][ClickToggleAll =>
       IF AnyVisible THEN \A k \in 1..Len(vis) : ~vis'[k]
                     ELSE \A k \in 1..Len(vis) : vis'[k]]_vars

\* C8: a raster call that ends, normally or by an exception, leaves no
\* figure open.
C8_FigureReleased ==
  (op = "plotOpenfastError" /\ ~use_plotly /\ pc \in {"done", "raised"}) => figure # "open"

IsCompleteDoc(doc) ==
  /\ Len(doc) >= 2
  /\ doc[1].t = "<!DOCTYPE html>"
  /\ Last(doc).t = "</html>"

\* C9: after an export ends, normally or by an error, its file is untouched
\* or holds the document from the DOCTYPE line to the closing html tag.
C9_WholeDocumentOrUntouched ==
  (op \in Exports /\ pc \in {"done", "raised"}) => (html = NoFile \/ IsCompleteDoc(html))

\* The control grid: the tokens of lines 337-360, between the two breaks.
Grid(doc) == SubSeq(doc, IndexOfTag(doc, "<br><br>") + 1, IndexOfTag(doc, "<br>") - 1)
IsOpenDiv(tok) == tok.t \in {"<div>", "<div class=row>", "<div class=col-sm>"}
IsCloseDiv(tok) == tok.t = "</div>"
Depth(g, k) ==
  Cardinality({j \in 1..k : IsOpenDiv(g[j])}) - Cardinality({j \in 1..k : IsCloseDiv(g[j])})
Balanced(g) == Depth(g, Len(g)) = 0 /\ \A k \in 1..Len(g) : Depth(g, k) >= 0
RowStarts(g) == {r \in 1..Len(g) : g[r].t = "<div class=row>"}
Closes(g, r) == {m \in (r + 1)..Len(g) : Depth(g, m) = Depth(g, r) - 1}
RowEnd(g, r) == CHOOSE m \in Closes(g, r) : \A x \in Closes(g, r) : m <= x
RowCells(g, r) ==
  {c \in (r + 1)..(RowEnd(g, r) - 1) :
     g[c].t = "<div class=col-sm>" /\ Depth(g, c) = Depth(g, r) + 1}
CeilDiv(a, b) == (a + b - 1) \div b

\* C10: in a complete combined report of n >= 1 records the control grid
\* is balanced (every div opened in it is closed in it), every row holds
\* 5 column cells and there are ceil(n/5) rows.
C10_GridWellFormed ==
  (op = "exportCombinedSummary" /\ pc = "done") =>
    LET g == Grid(html)
    IN /\ Balanced(g)
       /\ Cardinality(RowStarts(g)) = CeilDiv(Len(results), ncols)
       /\ \A r \in RowStarts(g) :
            /\ Closes(g, r) # {}
            /\ Cardinality(RowCells(g, r)) = ncols
====
